---- MODULE Spec2Model ----
(***************************************************************************)
(* Smiley Store API (src/main.py): product listing with seed-if-empty,     *)
(* product creation and order placement over a shared document store.      *)
(*                                                                         *)
(* The store (MongoDB) is shared by the server processes of Workers.  Each *)
(* handler is an `async def` that never suspends between its blocking      *)
(* store calls, so one process runs one handler at a time; handlers of     *)
(* different processes interleave at the granularity of one store call.    *)
(* Any call that reaches the store may fail (raise).                       *)
(* Money is counted in thousandths of a currency unit (59.0 is 59000).     *)
(* database.py (db, create_document, get_documents) is not part of the     *)
(* sources at hand; its operations follow the written specification.       *)
(***************************************************************************)
EXTENDS Integers, Sequences, FiniteSets, TLC

VARIABLES
    db,       \* TRUE iff the process-wide store handle is present (database.db)
    product,  \* the "product" collection, in insertion order
    order,    \* the "order" collection, in insertion order
    nextOid,  \* the next identifier the store assigns
    pc,       \* per worker: the handler's position
    req,      \* per worker: the request being handled
    loc,      \* per worker: the handler's local variables
    resp,     \* per worker: the HTTP response of the finished handler
    calls,    \* per worker: history of the store calls of the current request
    nreq,     \* history: number of requests received
    placed    \* history: text identifiers of the orders returned with status 200

vars == <<db, product, order, nextOid, pc, req, loc, resp, calls, nreq, placed>>

-----------------------------------------------------------------------------
(* Bounds of the model *)

MaxRequests == 2
MaxCart == 2

\* the server processes sharing the store
Workers == {1, 2}

(* Program constants *)

QuantityMin == 1
QuantityMax == 10
PriceMin == 0

SEED_PRODUCTS ==
    << [title |-> "Smiley Classic Hoodie",   price |-> 59000, category |-> "hoodies"],
       [title |-> "Smiley Minimal Tee",      price |-> 24000, category |-> "t-shirts"],
       [title |-> "Smiley Oversized Hoodie", price |-> 72000, category |-> "hoodies"],
       [title |-> "Smiley Retro Tee",        price |-> 29000, category |-> "t-shirts"] >>

(* Inputs the requests are drawn from *)

\* Optional[str]: <<>> is None, <<s>> is the string s
Categories == { <<>>, <<"">>, <<"hoodies">> }
\* ProductCreate.price in thousandths: one rejected, two with a third digit
Prices == { -1000, 1005, 1007 }
\* "1" is the text of the first identifier the store assigns (a product, an
\* order, or nothing yet); "does-not-exist" is no identifier's text
CartItems ==
    { [product_id |-> "1",              size |-> "M", quantity |-> 1],
      [product_id |-> "1",              size |-> "M", quantity |-> 2],
      [product_id |-> "does-not-exist", size |-> "M", quantity |-> 1],
      [product_id |-> "1",              size |-> "M", quantity |-> 0],
      [product_id |-> "1",              size |-> "M", quantity |-> 11] }
Carts == UNION { [1..n -> CartItems] : n \in 0..MaxCart }

\* every identifier the store can have assigned within the bounds
OidUniverse == 1..(MaxRequests * Len(SEED_PRODUCTS))

-----------------------------------------------------------------------------
(* Pure helpers *)

\* str(ObjectId)
Str(oid) == ToString(oid)

\* ObjectId(text) raises InvalidId unless text is the text form of an identifier
ObjectIdValid(text) == \E k \in OidUniverse : Str(k) = text
ObjectId(text) == CHOOSE k \in OidUniverse : Str(k) = text

\* collection.find_one({"_id": oid}): <<doc>> or <<>> (None)
FindOne(coll, oid) == SelectSeq(coll, LAMBDA d : d._id = oid)

\* serialize_doc: "_id" is replaced by its text form under "id"
SerializeDoc(doc) ==
    IF "_id" \in DOMAIN doc
    THEN [k \in (DOMAIN doc \ {"_id"}) \cup {"id"} |->
              IF k = "id" THEN Str(doc._id) ELSE doc[k]]
    ELSE doc

\* Python truthiness of an Optional[str]
Truthy(category) == category # <<>> /\ category[1] # ""

\* (changed) the category is dropped from the query
ListQuery_IgnoresCategory(category) == <<>>

\* list_products: query = {"category": category} if category else {}
ListQuery(category) == IF Truthy(category) THEN <<category[1]>> ELSE <<>>

\* database.get_documents(collection, query): every document matching the
\* equality filter, no pagination; without a store handle reads return empty
GetDocuments(hasDb, coll, query) ==
    IF ~hasDb THEN <<>>
    ELSE IF query = <<>> THEN coll
    ELSE SelectSeq(coll, LAMBDA d : d.category = query[1])

\* database.create_document(collection, document) fails with StoreUnavailable
\* without a store handle, or when the insert itself fails
CreateDocumentRaises(hasDb, fault) == ~hasDb \/ fault

\* database.create_document(collection, document): the collection with the
\* document inserted under the identifier the store assigns; the caller gets
\* that identifier as text
CreateDocument(coll, oid, document) == Append(coll, [_id |-> oid] @@ document)

\* (changed) the upper limit is not checked
QuantityOk_NoUpper(q) == q >= QuantityMin

\* Field(..., ge=1, le=10)
QuantityOk(q) == q >= QuantityMin /\ q <= QuantityMax
\* OrderCreate: items is a List[CartItem] (any length), each item validated
OrderCreateValid(items) == \A k \in 1..Len(items) : QuantityOk(items[k].quantity)
\* ProductCreate: price = Field(..., ge=0)
ProductCreateValid(price) == price >= PriceMin

\* line_total = price * item.quantity
LineTotal(price, quantity) == price * quantity

\* (changed) the total is cut to hundredths instead of rounded
Round2_Truncate(total) == {10 * (total \div 10)}

\* round(total, 2): the admissible results, in thousandths.  A value exactly
\* halfway between two hundredths goes either way, depending on the binary
\* representation of the float.
Round2(total) ==
    LET q == total \div 10
        r == total % 10
    IN  IF r < 5 THEN {10 * q}
        ELSE IF r > 5 THEN {10 * (q + 1)}
        ELSE {10 * q, 10 * (q + 1)}

\* (changed) the failure names the first item of the cart
NotFoundDetail_NamesFirst(items, i) == "Product not found: " \o items[1].product_id

\* raise HTTPException(status_code=404, detail=f"Product not found: {item.product_id}")
NotFoundDetail(items, i) == "Product not found: " \o items[i].product_id

\* (changed) the entry is put in front
AppendItem_Front(items_serialized, entry) == <<entry>> \o items_serialized

\* items_serialized.append(entry)
AppendItem(items_serialized, entry) == Append(items_serialized, entry)

\* the entry create_order appends to items_serialized
SerializedItem(item, prod) ==
    [product_id |-> item.product_id,
     title      |-> prod.title,
     size       |-> item.size,
     quantity   |-> item.quantity,
     unit_price |-> prod.price,
     line_total |-> LineTotal(prod.price, item.quantity)]

\* order_doc of create_order
OrderDoc(items_serialized, customer, rounded) ==
    [items    |-> items_serialized,
     customer |-> customer,
     total    |-> rounded,
     status   |-> "received"]

-----------------------------------------------------------------------------
(* State *)

NoReq == [kind |-> "none", category |-> <<>>, price |-> 0, items |-> <<>>]
NoLoc == [count |-> 0, i |-> 0, total |-> 0, items_serialized |-> <<>>, id |-> ""]
NoResp == [status |-> 0, detail |-> "", body |-> <<>>]

Response(status, detail, body) == [status |-> status, detail |-> detail, body |-> body]

\* one store call of a request, as the handler saw it
Call(op, coll, key, result) == [op |-> op, coll |-> coll, key |-> key, result |-> result]

Init ==
    /\ db \in BOOLEAN
    /\ product = <<>>
    /\ order = <<>>
    /\ nextOid = 1
    /\ pc = [w \in Workers |-> "idle"]
    /\ req = [w \in Workers |-> NoReq]
    /\ loc = [w \in Workers |-> NoLoc]
    /\ resp = [w \in Workers |-> NoResp]
    /\ calls = [w \in Workers |-> <<>>]
    /\ nreq = 0
    /\ placed = {}

\* the handler of w ends with this response
Finish(w, r) ==
    /\ pc' = [pc EXCEPT ![w] = "done"]
    /\ resp' = [resp EXCEPT ![w] = r]

Logged(w, c) == calls' = [calls EXCEPT ![w] = Append(@, c)]

-----------------------------------------------------------------------------
\* A request goes to the first process that is free (the processes are
\* identical), while the bound on the number of requests allows it.
Dispatch(w) ==
    /\ pc[w] = "idle"
    /\ \A v \in Workers : v < w => pc[v] # "idle"
    /\ nreq < MaxRequests

(* GET /api/products *)

ListProductsCall(w) ==
    /\ Dispatch(w)
    /\ \E category \in Categories :
        req' = [req EXCEPT ![w] = [NoReq EXCEPT !.kind = "list", !.category = category]]
    /\ pc' = [pc EXCEPT ![w] = "seed_count"]
    /\ nreq' = nreq + 1
    /\ UNCHANGED <<db, product, order, nextOid, loc, resp, calls, placed>>

\* (changed) the seed set is inserted whatever the count
SeedNeeded_Always(count) == TRUE

\* whether ensure_seed_products goes on to insert_many after its count
\* (if count == 0)
SeedNeeded(count) == count = 0

\* ensure_seed_products: count = db["product"].count_documents({}) if db else 0
\* (`if db` read as "the handle is present").  Without a handle count is 0
\* and db["product"] raises; like a failing store call this is swallowed by
\* `except Exception: pass`.
EnsureSeedCount(w) ==
    /\ pc[w] = "seed_count"
    /\ IF ~db
       THEN /\ pc' = [pc EXCEPT ![w] = "list_find"]
            /\ UNCHANGED <<loc, calls>>
       ELSE \E fault \in BOOLEAN :
            IF fault
            THEN /\ pc' = [pc EXCEPT ![w] = "list_find"]
                 /\ Logged(w, Call("count_documents", "product", "", "raised"))
                 /\ UNCHANGED loc
            ELSE /\ loc' = [loc EXCEPT ![w].count = Len(product)]
                 /\ Logged(w, Call("count_documents", "product", "", "ok"))
                 /\ pc' = [pc EXCEPT ![w] =
                        IF SeedNeeded(Len(product)) THEN "seed_insert" ELSE "list_find"]
    /\ UNCHANGED <<db, product, order, nextOid, req, resp, nreq, placed>>

\* the seed documents with the identifiers the store assigns from `first` on
SeedDocs(first) ==
    [k \in 1..Len(SEED_PRODUCTS) |->
        [_id      |-> first + k - 1,
         title    |-> SEED_PRODUCTS[k].title,
         price    |-> SEED_PRODUCTS[k].price,
         category |-> SEED_PRODUCTS[k].category]]

\* ensure_seed_products: db["product"].insert_many(SEED_PRODUCTS)
\* A failing call leaves the store as it was.
EnsureSeedInsert(w) ==
    /\ pc[w] = "seed_insert"
    /\ \E fault \in BOOLEAN :
        IF fault
        THEN /\ Logged(w, Call("insert_many", "product", "", "raised"))
             /\ UNCHANGED <<product, nextOid>>
        ELSE /\ product' = product \o SeedDocs(nextOid)
             /\ nextOid' = nextOid + Len(SEED_PRODUCTS)
             /\ Logged(w, Call("insert_many", "product", "", "ok"))
    /\ pc' = [pc EXCEPT ![w] = "list_find"]
    /\ UNCHANGED <<db, order, req, loc, resp, nreq, placed>>

\* products = get_documents("product", query); return the serialized list
ListProductsFind(w) ==
    /\ pc[w] = "list_find"
    /\ \E fault \in {f \in BOOLEAN : db \/ ~f} :
        IF fault
        THEN /\ Finish(w, Response(500, "Internal Server Error", <<>>))
             /\ Logged(w, Call("find", "product", "", "raised"))
        ELSE LET docs == GetDocuments(db, product, ListQuery(req[w].category))
             IN  /\ Finish(w, Response(200, "",
                               [k \in 1..Len(docs) |-> SerializeDoc(docs[k])]))
                 /\ IF db THEN Logged(w, Call("find", "product", "", "ok"))
                          ELSE UNCHANGED calls
    /\ UNCHANGED <<db, product, order, nextOid, req, loc, nreq, placed>>

-----------------------------------------------------------------------------
(* POST /api/products *)

\* the request body is validated (ProductCreate) before the handler runs
CreateProductCall(w) ==
    /\ Dispatch(w)
    /\ \E price \in Prices :
        /\ req' = [req EXCEPT ![w] = [NoReq EXCEPT !.kind = "product", !.price = price]]
        /\ IF ProductCreateValid(price)
           THEN /\ pc' = [pc EXCEPT ![w] = "prod_insert"]
                /\ UNCHANGED resp
           ELSE Finish(w, Response(422, "validation", <<>>))
    /\ nreq' = nreq + 1
    /\ UNCHANGED <<db, product, order, nextOid, loc, calls, placed>>

\* inserted_id = create_document("product", p.model_dump())
CreateProductInsert(w) ==
    /\ pc[w] = "prod_insert"
    /\ \E fault \in BOOLEAN :
        IF CreateDocumentRaises(db, fault)
        THEN /\ Finish(w, Response(500, "Internal Server Error", <<>>))
             /\ Logged(w, Call("insert_one", "product", "", "raised"))
             /\ UNCHANGED <<product, nextOid, loc>>
        ELSE /\ product' = CreateDocument(product, nextOid,
                    [title |-> "custom", price |-> req[w].price, category |-> "socks"])
             /\ nextOid' = nextOid + 1
             /\ loc' = [loc EXCEPT ![w].id = Str(nextOid)]
             /\ Logged(w, Call("insert_one", "product", Str(nextOid), "ok"))
             /\ pc' = [pc EXCEPT ![w] = "prod_fetch"]
             /\ UNCHANGED resp
    /\ UNCHANGED <<db, order, req, nreq, placed>>

\* doc = db["product"].find_one({"_id": ObjectId(inserted_id)}); serialize_doc(doc)
CreateProductFetch(w) ==
    /\ pc[w] = "prod_fetch"
    /\ \E fault \in BOOLEAN :
        IF fault
        THEN /\ Finish(w, Response(500, "Internal Server Error", <<>>))
             /\ Logged(w, Call("find_one", "product", loc[w].id, "raised"))
        ELSE LET doc == FindOne(product, ObjectId(loc[w].id))
             IN  /\ Finish(w, Response(200, "", <<SerializeDoc(doc[1])>>))
                 /\ Logged(w, Call("find_one", "product", loc[w].id, "ok"))
    /\ UNCHANGED <<db, product, order, nextOid, req, loc, nreq, placed>>

-----------------------------------------------------------------------------
(* POST /api/order *)

\* the request body is validated (OrderCreate, CartItem) before the handler
\* runs; the handler starts with total = 0.0 and items_serialized = []
CreateOrderCall(w) ==
    /\ Dispatch(w)
    /\ \E items \in Carts :
        /\ req' = [req EXCEPT ![w] = [NoReq EXCEPT !.kind = "order", !.items = items]]
        /\ IF OrderCreateValid(items)
           THEN /\ pc' = [pc EXCEPT ![w] = IF items = <<>> THEN "order_insert" ELSE "lookup"]
                /\ loc' = [loc EXCEPT ![w] = [NoLoc EXCEPT !.i = 1]]
                /\ UNCHANGED resp
           ELSE /\ Finish(w, Response(422, "validation", <<>>))
                /\ UNCHANGED loc
    /\ nreq' = nreq + 1
    /\ UNCHANGED <<db, product, order, nextOid, calls, placed>>

\* try: prod = db["product"].find_one({"_id": ObjectId(item.product_id)})
\* except Exception: prod = None
\* The result is <<doc>> or <<>> (None); InvalidId, a missing store handle and
\* a failing store call all end in None.
LookupProduct(hasDb, fault, coll, product_id) ==
    IF ~ObjectIdValid(product_id) \/ ~hasDb \/ fault
    THEN <<>>
    ELSE FindOne(coll, ObjectId(product_id))

\* what the lookup of product_id was, for the history of store calls
LookupResult(hasDb, fault, coll, product_id) ==
    IF ~ObjectIdValid(product_id) THEN "invalid_id"
    ELSE IF ~hasDb \/ fault THEN "raised"
    ELSE IF FindOne(coll, ObjectId(product_id)) = <<>> THEN "none"
    ELSE "ok"

\* one iteration of `for item in order.items`
CreateOrderLookup(w) ==
    /\ pc[w] = "lookup"
    /\ \E fault \in {f \in BOOLEAN : (db /\ ObjectIdValid(req[w].items[loc[w].i].product_id)) \/ ~f} :
        LET item == req[w].items[loc[w].i]
            prod == LookupProduct(db, fault, product, item.product_id)
        IN  /\ Logged(w, Call("find_one", "product", item.product_id,
                              LookupResult(db, fault, product, item.product_id)))
            /\ IF prod = <<>>
               THEN /\ Finish(w, Response(404, NotFoundDetail(req[w].items, loc[w].i), <<>>))
                    /\ UNCHANGED loc
               ELSE /\ loc' = [loc EXCEPT
                            ![w].total = @ + LineTotal(prod[1].price, item.quantity),
                            ![w].items_serialized = AppendItem(@, SerializedItem(item, prod[1])),
                            ![w].i = @ + 1]
                    /\ pc' = [pc EXCEPT ![w] =
                            IF loc[w].i = Len(req[w].items) THEN "order_insert" ELSE "lookup"]
                    /\ UNCHANGED resp
    /\ UNCHANGED <<db, product, order, nextOid, req, nreq, placed>>

\* order_doc = {...,"total": round(total, 2), ...}
\* order_id = create_document("order", order_doc)
CreateOrderInsert(w) ==
    /\ pc[w] = "order_insert"
    /\ \E fault \in BOOLEAN, rounded \in Round2(loc[w].total) :
        IF CreateDocumentRaises(db, fault)
        THEN /\ Finish(w, Response(500, "Internal Server Error", <<>>))
             /\ Logged(w, Call("insert_one", "order", "", "raised"))
             /\ UNCHANGED <<order, nextOid, loc>>
        ELSE /\ order' = CreateDocument(order, nextOid,
                    OrderDoc(loc[w].items_serialized, "customer", rounded))
             /\ nextOid' = nextOid + 1
             /\ loc' = [loc EXCEPT ![w].id = Str(nextOid)]
             /\ Logged(w, Call("insert_one", "order", Str(nextOid), "ok"))
             /\ pc' = [pc EXCEPT ![w] = "order_fetch"]
             /\ UNCHANGED resp
    /\ UNCHANGED <<db, product, req, nreq, placed>>

\* saved = db["order"].find_one({"_id": ObjectId(order_id)}); serialize_doc(saved)
CreateOrderFetch(w) ==
    /\ pc[w] = "order_fetch"
    /\ \E fault \in BOOLEAN :
        IF fault
        THEN /\ Finish(w, Response(500, "Internal Server Error", <<>>))
             /\ Logged(w, Call("find_one", "order", loc[w].id, "raised"))
             /\ UNCHANGED placed
        ELSE LET saved == FindOne(order, ObjectId(loc[w].id))
             IN  /\ Finish(w, Response(200, "", <<SerializeDoc(saved[1])>>))
                 /\ Logged(w, Call("find_one", "order", loc[w].id, "ok"))
                 /\ placed' = placed \cup {loc[w].id}
    /\ UNCHANGED <<db, product, order, nextOid, req, loc, nreq>>

-----------------------------------------------------------------------------

\* the response has been sent; the process is free for its next request
Return(w) ==
    /\ pc[w] = "done"
    /\ pc' = [pc EXCEPT ![w] = "idle"]
    /\ req' = [req EXCEPT ![w] = NoReq]
    /\ loc' = [loc EXCEPT ![w] = NoLoc]
    /\ resp' = [resp EXCEPT ![w] = NoResp]
    /\ calls' = [calls EXCEPT ![w] = <<>>]
    /\ UNCHANGED <<db, product, order, nextOid, nreq, placed>>

Next ==
    \E w \in Workers :
        \/ ListProductsCall(w)
        \/ EnsureSeedCount(w)
        \/ EnsureSeedInsert(w)
        \/ ListProductsFind(w)
        \/ CreateProductCall(w)
        \/ CreateProductInsert(w)
        \/ CreateProductFetch(w)
        \/ CreateOrderCall(w)
        \/ CreateOrderLookup(w)
        \/ CreateOrderInsert(w)
        \/ CreateOrderFetch(w)
        \/ Return(w)

Spec == Init /\ [][Next]_vars

-----------------------------------------------------------------------------
(* Vocabulary of the properties *)

OrderRequest(w) == req[w].kind = "order"

\* every quantity of the cart lies in 1..10
QuantitiesInRange(items) ==
    \A k \in 1..Len(items) : items[k].quantity \in 1..10

\* no product of the collection has this text as its identifier
Unresolvable(product_id) ==
    \A k \in 1..Len(product) : ToString(product[k]._id) # product_id

\* the product lookups of w's create_order request, in the order performed
Lookups(w) ==
    SelectSeq(calls[w], LAMBDA c : c.op = "find_one" /\ c.coll = "product")

\* the identifiers (as text) of the orders w's request has inserted
InsertedOrders(w) ==
    { calls[w][k].key : k \in { j \in 1..Len(calls[w]) :
          /\ calls[w][j].op = "insert_one"
          /\ calls[w][j].coll = "order"
          /\ calls[w][j].result = "ok" } }

\* no handler is between two store calls
Quiescent == \A w \in Workers : pc[w] \in {"idle", "done"}

RECURSIVE SumSeq(_)
SumSeq(s) == IF s = <<>> THEN 0 ELSE Head(s) + SumSeq(Tail(s))

\* the exact sum of unit_price * quantity over the lines
LineSum(items) ==
    SumSeq([k \in 1..Len(items) |-> items[k].unit_price * items[k].quantity])

\* how many copies of the seed set the product collection holds
SeedCopies ==
    Cardinality({ j \in 1..Len(product) : product[j].title = SEED_PRODUCTS[1].title })

-----------------------------------------------------------------------------
(* C1: a create_order request whose cart holds an identifier that no       *)
(* product of the collection has (well-formed or not) ends with status 404 *)
(* naming the first cart item that did not resolve, every item before it   *)
(* having resolved, and the request has inserted no order.                 *)
C1_UnresolvedIdFails ==
    \A w \in Workers :
        ( /\ pc[w] = "done" /\ OrderRequest(w)
          /\ QuantitiesInRange(req[w].items)
          /\ \E k \in 1..Len(req[w].items) : Unresolvable(req[w].items[k].product_id) )
        => LET n == Len(Lookups(w))
           IN  /\ resp[w].status = 404
               /\ n >= 1
               /\ \A k \in 1..(n - 1) : Lookups(w)[k].result = "ok"
               /\ Lookups(w)[n].result # "ok"
               /\ resp[w].detail = "Product not found: " \o req[w].items[n].product_id
               /\ InsertedOrders(w) = {}

\* the first item resolved, the second is no identifier: 404 names the second
C1_Witness ==
    \E w \in Workers :
        /\ pc[w] = "done" /\ OrderRequest(w)
        /\ Len(req[w].items) = 2
        /\ req[w].items[2].product_id = "does-not-exist"
        /\ Len(Lookups(w)) = 2
        /\ Lookups(w)[1].result = "ok"
        /\ resp[w].status = 404
        /\ resp[w].detail = "Product not found: does-not-exist"

(* C2: every persisted order has line_total = unit_price * quantity on     *)
(* each line, unit_price the price of the product the line names, and a    *)
(* total that is the sum of the lines rounded to hundredths; the order     *)
(* returned with status 200 is the persisted one, line for line the cart.  *)
C2_TotalIsRoundedSum ==
    /\ \A j \in 1..Len(order) :
        LET o == order[j]
        IN  /\ \A k \in 1..Len(o.items) :
                /\ o.items[k].line_total = o.items[k].unit_price * o.items[k].quantity
                /\ \E p \in 1..Len(product) :
                    /\ ToString(product[p]._id) = o.items[k].product_id
                    /\ product[p].price = o.items[k].unit_price
            /\ o.total % 10 = 0
            /\ o.total - LineSum(o.items) \in -5..5
    /\ \A w \in Workers :
        (pc[w] = "done" /\ OrderRequest(w) /\ resp[w].status = 200)
        => LET b == resp[w].body[1]
           IN  /\ \E j \in 1..Len(order) :
                    /\ ToString(order[j]._id) = b.id
                    /\ order[j].items = b.items
                    /\ order[j].total = b.total
               /\ Len(b.items) = Len(req[w].items)
               /\ \A k \in 1..Len(b.items) :
                    /\ b.items[k].product_id = req[w].items[k].product_id
                    /\ b.items[k].quantity = req[w].items[k].quantity

\* a two-line order whose sum is not a whole number of hundredths
C2_Witness ==
    \E w \in Workers :
        /\ pc[w] = "done" /\ OrderRequest(w) /\ resp[w].status = 200
        /\ Len(resp[w].body[1].items) = 2
        /\ LineSum(resp[w].body[1].items) % 10 # 0
        /\ resp[w].body[1].total # LineSum(resp[w].body[1].items)

(* C3 (as claimed): a create_order request that ends with a failure status *)
(* has inserted no order.  Stated for the non-empty carts.                 *)
C3_NoOrderLeftOnFailure ==
    \A w \in Workers :
        ( /\ pc[w] = "done" /\ OrderRequest(w)
          /\ req[w].items # <<>>
          /\ resp[w].status # 200 )
        => InsertedOrders(w) = {}

(* C4 (as claimed): without a store handle, create_order on a cart whose   *)
(* quantities are all valid ends with a server error (500), not with 404,  *)
(* and no order exists.                                                    *)
C4_NoHandleIsServerError ==
    \A w \in Workers :
        ( /\ ~db
          /\ pc[w] = "done" /\ OrderRequest(w)
          /\ QuantitiesInRange(req[w].items) )
        => (resp[w].status = 500 /\ order = <<>>)

(* C5 (as claimed): every persisted order has at least one line item.      *)
C5_OrdersHaveItems ==
    \A j \in 1..Len(order) : Len(order[j].items) >= 1

(* C6: a create_order request with a quantity outside 1..10 is answered    *)
(* 422 at once: its handler never runs and it makes no store call, so the  *)
(* collections are as it found them.                                       *)
C6_BadQuantityRejectedBeforeStore ==
    \A w \in Workers :
        (OrderRequest(w) /\ ~QuantitiesInRange(req[w].items))
        => /\ pc[w] = "done"
           /\ resp[w].status = 422
           /\ calls[w] = <<>>
           /\ loc[w].items_serialized = <<>>

\* a valid item followed by one with quantity 11
C6_Witness ==
    \E w \in Workers :
        /\ pc[w] = "done" /\ OrderRequest(w)
        /\ Len(req[w].items) = 2
        /\ req[w].items[1].quantity = 1
        /\ req[w].items[2].quantity = 11
        /\ resp[w].status = 422

(* C7 (as claimed): once no request is in progress, the orders with line   *)
(* items in the collection are exactly those returned with status 200, and *)
(* the identifiers in the collection are pairwise distinct.                *)
C7_OneOrderPerSuccessfulPlacement ==
    /\ \A i, j \in 1..Len(order) : order[i]._id = order[j]._id => i = j
    /\ Quiescent =>
        LET ids == { ToString(order[j]._id) :
                        j \in { i \in 1..Len(order) : order[i].items # <<>> } }
        IN  ids \subseteq placed

(* C8: a successful listing with a non-empty category returns exactly the  *)
(* products of the collection, as it is when they are fetched, whose       *)
(* category equals it; with no or an empty category, all of them.          *)
C8_ListFiltersByCategory ==
    [][ \A w \in Workers :
          (pc[w] = "list_find" /\ pc'[w] = "done" /\ resp'[w].status = 200)
          => LET c == req[w].category
                 given == c # <<>> /\ c[1] # ""
                 idx == { k \in 1..Len(product) : given => product[k].category = c[1] }
                 body == resp'[w].body
             IN  /\ Len(body) = Cardinality(idx)
                 /\ \A k \in 1..Len(body) : \A j \in 1..Len(body) :
                        body[k].id = body[j].id => k = j
                 /\ \A k \in 1..Len(body) : \E j \in idx :
                        /\ body[k].id = ToString(product[j]._id)
                        /\ body[k].title = product[j].title
                        /\ body[k].price = product[j].price
                        /\ body[k].category = product[j].category
      ]_vars

\* the two hoodies out of the four seed products
C8_Witness ==
    \E w \in Workers :
        /\ pc[w] = "done" /\ req[w].kind = "list"
        /\ req[w].category = <<"hoodies">>
        /\ resp[w].status = 200
        /\ Len(resp[w].body) = 2
        /\ Len(product) = 4

(* C9: the seed set is inserted only by a listing whose own count found    *)
(* the collection empty; count and insert are two store calls with nothing *)
(* between them, so the collection can hold one copy of the seed set per   *)
(* process that is listing (the witness: two processes, two copies, eight  *)
(* products) and never more.                                               *)
C9_SeedAfterEmptyCount ==
    /\ \A w \in Workers : \A k \in 1..Len(calls[w]) :
        calls[w][k].op = "insert_many"
        => /\ k > 1
           /\ calls[w][k - 1].op = "count_documents"
           /\ calls[w][k - 1].result = "ok"
           /\ loc[w].count = 0
    /\ SeedCopies <= Cardinality(Workers)

\* both processes counted zero documents and both inserted the seed set
C9_Witness ==
    /\ \A w \in Workers :
        /\ req[w].kind = "list"
        /\ loc[w].count = 0
        /\ \E k \in 1..Len(calls[w]) :
            calls[w][k].op = "insert_many" /\ calls[w][k].result = "ok"
    /\ Len(product) = 8
    /\ SeedCopies = 2

(* C10: the product lookups of a create_order request follow the cart, one *)
(* per item from the first; a lookup that does not resolve is the last one *)
(* and ends the request with 404 naming its item; an inserted order has    *)
(* the cart's items, as many and in the same order.                        *)
C10_LookupsInOrderFailFast ==
    \A w \in Workers :
        OrderRequest(w)
        => LET L == Lookups(w)
               n == Len(L)
               items == req[w].items
           IN  /\ n <= Len(items)
               /\ SubSeq(calls[w], 1, n) = L
               /\ \A k \in 1..n : L[k].key = items[k].product_id
               /\ \A k \in 1..n :
                    L[k].result # "ok"
                    => /\ k = n
                       /\ pc[w] = "done"
                       /\ resp[w].status = 404
                       /\ resp[w].detail = "Product not found: " \o items[k].product_id
               /\ resp[w].status = 404 => (n >= 1 /\ L[n].result # "ok")
               /\ \A j \in 1..Len(order) :
                    ToString(order[j]._id) \in InsertedOrders(w)
                    => /\ n = Len(items)
                       /\ Len(order[j].items) = Len(items)
                       /\ \A k \in 1..Len(items) :
                            /\ order[j].items[k].product_id = items[k].product_id
                            /\ order[j].items[k].quantity = items[k].quantity
                            /\ order[j].items[k].size = items[k].size

\* the first of two items does not resolve: one lookup, the second never made
C10_Witness ==
    \E w \in Workers :
        /\ pc[w] = "done" /\ OrderRequest(w)
        /\ Len(req[w].items) = 2
        /\ req[w].items[1].product_id # req[w].items[2].product_id
        /\ Len(calls[w]) = 1
        /\ resp[w].status = 404

====
